---- MODULE Spec2Model ----
(***************************************************************************)
(* A model of the file-system cache and its dependency traps               *)
(* (src/file_system/cache.js).  FileSystemCache keeps one File record per  *)
(* path and a reverse index from path to the traps observing it; a         *)
(* FileSystemTrap records what was read through it.  Queries are           *)
(* asynchronous: a query is issued in one step and settles in a later one, *)
(* and file-system events may be ingested in between.                      *)
(***************************************************************************)
EXTENDS Integers, Sequences, FiniteSets, TLC

\* ---------------------------------------------------------------- bounds
Paths == {"p1", "p2"}
Traps == {"t1", "t2"}
\* events ingested; queries and rehydrations issued; both together; queries in
\* flight at once
MaxEvents == 2
MaxCalls == 2
MaxOps == 3
MaxInFlight == 2
\* The build:complete signals of one behaviour.
MaxBuilds == 2
\* The defineModule calls of one behaviour that no build asked for.
MaxStray == 1

\* ---------------------------------------------------------------- values
Methods == {"isFile", "stat", "readModifiedTime", "readBuffer", "readText", "readTextHash"}
Props == {"isFile", "stat", "modifiedTime", "buffer", "text", "textHash"}
MTimes == {1, 2}
Hashes == {"h1", "h2"}
NoStat == [present |-> FALSE, isFile |-> FALSE, mtime |-> 0]
Stats == {[present |-> TRUE, isFile |-> TRUE, mtime |-> 1]}
NoTrap == "none"
\* Traps are created in this order.
TrapSerial(t) == IF t = "t1" THEN 1 ELSE 2

VARIABLES
    files,            \* FileSystemCache.files: path -> serial of the path's current File, 0 for none
    cells,            \* the property cells of each path's current File
    trapsByFile,      \* FileSystemCache.trapsByFile: path -> traps in insertion order
    created,          \* which traps exist
    bindings,         \* FileSystemTrap.bindings: trap -> path -> binding
    boundFiles,       \* FileSystemTrap.boundFiles
    triggerOnChange,  \* FileSystemTrap.triggerOnChange
    inflight,         \* the queries in flight, in the order they were issued
    nCalls,           \* the number of queries and rehydrations issued so far
    nEvents,          \* the number of events ingested so far
    event,            \* the event this step ingested (kind "none" if it ingested none)
    pushed,           \* what this step pushed to trapTriggered, in order
    settled,          \* the query this step settled and what its caller received
    fired,            \* per trap, the number of trapTriggered notifications so far
    diff,             \* cyclic-dependency-graph: the Diff the functions of diff.js are given
    diffOut,          \* cyclic-dependency-graph: what the last call on diff returned
    modules,          \* hot runtime: __modules.modules, name -> hash of the registered module
    pending,          \* hot runtime: __modules.pending, name -> expected hash
    buffered,         \* hot runtime: __modules.buffered, in the order of the pushes
    loading,          \* hot runtime: the script assets that will call defineModule once loaded
    nBuilds,          \* hot runtime: the number of build:complete signals so far
    nStray,           \* hot runtime: the number of defineModule calls no build asked for
    hotOut            \* hot runtime: the call this step made and the modules it applied

vars == <<files, cells, trapsByFile, created, bindings, boundFiles, triggerOnChange,
          inflight, nCalls, nEvents, event, pushed, settled, fired, diff, diffOut,
          modules, pending, buffered, loading, nBuilds, nStray, hotOut>>

hotVars == <<modules, pending, buffered, loading, nBuilds, nStray, hotOut>>

\* ---------------------------------------------------------------- helpers
Member(s, x) == \E i \in 1..Len(s) : s[i] = x
Range(s) == {s[i] : i \in 1..Len(s)}

\* The value a property cell holds while it has none (keeps each cell's type).
DefaultVal(prop) ==
    CASE prop = "isFile" -> FALSE
      [] prop = "stat" -> NoStat
      [] prop = "modifiedTime" -> 0
      [] prop = "buffer" -> "none"
      [] prop = "text" -> "none"
      [] prop = "textHash" -> "undefined"

\* What the storage backend can answer for a property.
Vals(prop) ==
    CASE prop = "isFile" -> BOOLEAN
      [] prop = "stat" -> Stats
      [] prop = "modifiedTime" -> MTimes
      [] prop = "buffer" -> {"bytes"}
      [] prop = "text" -> {"text"}
      [] prop = "textHash" -> Hashes

Unset(prop) == [st |-> "unset", v |-> DefaultVal(prop)]
Resolved(val) == [st |-> "ok", v |-> val]
Failed(prop) == [st |-> "err", v |-> DefaultVal(prop)]

\* The property cell a cache method reads (File.getIsFile, File.getStat, ...).
PropOf(method) ==
    CASE method = "isFile" -> "isFile"
      [] method = "stat" -> "stat"
      [] method = "readModifiedTime" -> "modifiedTime"
      [] method = "readBuffer" -> "buffer"
      [] method = "readText" -> "text"
      [] method = "readTextHash" -> "textHash"

\* File.get<Prop>: the first read of a cell starts the backend call, later
\* reads share its outcome.
CellGet(cell) == IF cell.st = "unset" THEN [cell EXCEPT !.st = "pending"] ELSE cell

NoBinding == [present |-> FALSE, isFile |-> "undefined", modifiedTime |-> 0, textHash |-> "undefined"]
EmptyBinding == [NoBinding EXCEPT !.present = TRUE]
BoolStr(b) == IF b THEN "true" ELSE "false"

\* ---------------------------------------------------------------- File
\* new File(path, fileSystem): the cells of a new record, pre-populated from a
\* stat when one is given (_createFile).
NewFile(stat) ==
    [prop \in Props |->
        IF stat.present /\ prop = "stat" THEN Resolved(stat)
        ELSE IF stat.present /\ prop = "isFile" THEN Resolved(stat.isFile)
        ELSE IF stat.present /\ prop = "modifiedTime" THEN Resolved(stat.mtime)
        ELSE Unset(prop)]

\* ---------------------------------------------------------------- FileSystemCache
\* A cache that never adds to the reverse index.
bindNothing(tbf, trap, path) == tbf

\* _bindTrapToFile: Set.add keeps the place of a trap that is already a member.
bindTrapToFile(tbf, trap, path) ==
    IF Member(tbf[path], trap) THEN tbf ELSE [tbf EXCEPT ![path] = Append(@, trap)]

\* A cache whose staleness check is inverted.
blockCurrent(file, path) == file = files[path]

\* A cache without the staleness check.
blockNothing(file, path) == FALSE

\* _blockStaleFilesFromResolving: TRUE when the promise chain is cut, that is when
\* the File the query ran against is no longer the path's current File.
blockStaleFilesFromResolving(file, path) == file # files[path]

\* _evaluateFileMethod, its synchronous part: the File the query runs against
\* (a new one if the path has none) and the cells after the read has started.
EvalFileId(path) == IF files[path] = 0 THEN 1 ELSE files[path]

\* A cache that reads every query from a File of its own.
EvalCellsAlwaysNew(path, prop) ==
    [cells EXCEPT ![path] = [NewFile(NoStat) EXCEPT ![prop] = CellGet(@)]]

EvalCells(path, prop) ==
    LET cur == IF files[path] = 0 THEN NewFile(NoStat) ELSE cells[path]
    IN [cells EXCEPT ![path] = [cur EXCEPT ![prop] = CellGet(@)]]

\* _triggerTraps, first loop: every trap of the batch leaves the set of each path
\* it has a binding for.
Detach(tbf, batch, bnd) ==
    [p \in Paths |->
        SelectSeq(tbf[p], LAMBDA t : ~(Member(batch, t) /\ bnd[t][p].present))]

\* Notifications in the order the batch was collected.
EmitInOrder(batch, path, cause) ==
    [i \in 1..Len(batch) |-> [trap |-> batch[i], path |-> path, cause |-> cause]]

\* _triggerTraps, second loop: the notifications, last trap of the batch first.
Emit(batch, path, cause) ==
    [i \in 1..Len(batch) |-> [trap |-> batch[Len(batch) + 1 - i], path |-> path, cause |-> cause]]

\* Variants of the selection rules: any binding counts; triggerOnChange is ignored.
AddedQualifiesAnyBinding(t, path) == bindings[t][path].present
ChangedQualifiesAnyBinding(t, path) == triggerOnChange[t][path] \/ bindings[t][path].present
ChangedQualifiesBindingsOnly(t, path) ==
    /\ bindings[t][path].present
    /\ (bindings[t][path].modifiedTime # 0 \/ bindings[t][path].textHash # "undefined")

\* The traps an event selects among those of trapsByFile[path].
AddedQualifies(t, path) == bindings[t][path].present /\ bindings[t][path].isFile = "false"
ChangedQualifies(t, path) ==
    IF triggerOnChange[t][path] THEN TRUE
    ELSE /\ bindings[t][path].present
         /\ (bindings[t][path].modifiedTime # 0 \/ bindings[t][path].textHash # "undefined")
RemovedQualifies(t, path) == bindings[t][path].isFile = "true"

\* _handleFileRemoved reads trap.bindings[path].isFile without a guard: a member
\* of trapsByFile[path] with no bindings for path raises a TypeError.
RemovedThrows(path) == \E t \in Range(trapsByFile[path]) : ~bindings[t][path].present

\* ---------------------------------------------------------------- FileSystemTrap
\* _ensureBindingToFile
\* A trap that leaves its registration to the then-handler of its query.
ensureLater(tbf, bf, trap, path) == tbf

ensureBoundFiles(bf, trap, path) == [bf EXCEPT ![trap][path] = TRUE]
ensureTrapsByFile(tbf, bf, trap, path) ==
    IF bf[trap][path] THEN tbf ELSE bindTrapToFile(tbf, trap, path)

\* describeDependencies
DescribeDependencies(t) == bindings[t]

\* ---------------------------------------------------------------- cyclic-dependency-graph/diff.js
\* The keys of the Immutable Maps diff.from and diff.to, and the order forEach
\* visits them in.
Keys == {"a", "b"}
KeyOrder == <<"a", "b">>

\* A stored value: its JavaScript type, its content and, for an Immutable
\* collection, the identity of the object (two collections with the same content
\* are different objects).
Value(tag, n, ref) == [tag |-> tag, n |-> n, ref |-> ref]
Undefined == Value("undefined", 0, 0)
Null == Value("null", 0, 0)
False == Value("boolean", 0, 0)
Zero == Value("number", 0, 0)
One == Value("number", 1, 0)
EmptyString == Value("string", 0, 0)
Node(n, ref) == Value("node", n, ref)
Values == {Null, False, Zero, One, EmptyString, Node(1, 1), Node(1, 2)}

\* An Immutable Map over Keys: per key, whether it is present and its value.
Absent == [has |-> FALSE, value |-> Undefined]
Slots == {Absent} \cup {[has |-> TRUE, value |-> v] : v \in Values}
Snapshots == [Keys -> Slots]
EmptyMap == [k \in Keys |-> Absent]

\* Map.has, Map.get (undefined for an absent key) and the keys forEach visits.
has(m, key) == m[key].has
get(m, key) == m[key].value
KeysOf(m) == SelectSeq(KeyOrder, LAMBDA key : has(m, key))

\* JavaScript's truthiness, as the && of getChangedNodes tests it.
Truthy(v) == v.tag = "node" \/ (v.tag \in {"boolean", "number", "string"} /\ v.n # 0)

\* Immutable's is: value equality, by content for collections.
is(a, b) == a.tag = b.tag /\ a.n = b.n

\* Diff = Record({from, to})
Diff(from, to) == [from |-> from, to |-> to]
Diffs == [from : Snapshots, to : Snapshots]

\* A getNewNodesFromDiff that tests the value from.get(key) instead of from.has(key).
getNewNodesByValue(d) == SelectSeq(KeysOf(d.to), LAMBDA key : ~Truthy(get(d.from, key)))

getNewNodesFromDiff(d) == SelectSeq(KeysOf(d.to), LAMBDA key : ~has(d.from, key))

\* A getPrunedNodesFromDiff that tests the value to.get(key) instead of to.has(key).
getPrunedNodesByValue(d) == SelectSeq(KeysOf(d.from), LAMBDA key : ~Truthy(get(d.to, key)))

getPrunedNodesFromDiff(d) == SelectSeq(KeysOf(d.from), LAMBDA key : ~has(d.to, key))

\* A getChangedNodes without the test of fromValue.
getChangedNodesUnguarded(d) ==
    SelectSeq(KeysOf(d.to), LAMBDA key : ~is(get(d.to, key), get(d.from, key)))

getChangedNodes(d) ==
    SelectSeq(KeysOf(d.to),
              LAMBDA key : Truthy(get(d.from, key)) /\ ~is(get(d.to, key), get(d.from, key)))

\* A mergeDiffs that returns its first diff.
mergeDiffsFirst(diff1, diff2) == diff1

\* A mergeDiffs that returns its second diff.
mergeDiffsSecond(diff1, diff2) == diff2

mergeDiffs(diff1, diff2) == Diff(diff1.from, diff2.to)

\* The snapshots the later diffs given to mergeDiffs end in.
LaterSnapshots ==
    {EmptyMap,
     [EmptyMap EXCEPT !["a"] = [has |-> TRUE, value |-> One]],
     [k \in Keys |-> [has |-> TRUE, value |-> IF k = "a" THEN Zero ELSE Node(1, 2)]]}
LaterDiffs == [from : LaterSnapshots, to : LaterSnapshots]

NoDiff == Diff(EmptyMap, EmptyMap)
NoOutput == [op |-> "none", nodes |-> <<>>, args |-> <<>>, diffs |-> <<>>]

\* ---------------------------------------------------------------- runtimes/hot.js
\* The modules of a build, in the order _.forEach visits the records, and the
\* hashes a record can have (0: no module, no record, no pending hash).
HotNames == {"a.js", "b.js", "c.css"}
HotNameOrder == <<"a.js", "b.js", "c.css">>
ModuleHashes == {1, 2}
Mod(name, hash) == [name |-> name, hash |-> hash]
Mods == [name : HotNames, hash : ModuleHashes]

\* A css or binary record: accepted blindly, and defined by the build:complete
\* handler itself.
Stateless(name) == name = "c.css"

\* mod.hot.accepted: extendModule creates it true, accept() and exit() set it true.
HotAccepted(name) == TRUE

\* __modules.pending = {}
NoPending == [n \in HotNames |-> 0]
NoModules == [n \in HotNames |-> 0]

\* The registry after the original defineModule has been given each module of buf.
Swapped(mods, buf) ==
    [n \in HotNames |->
        IF \E i \in 1..Len(buf) : buf[i].name = n
        THEN buf[CHOOSE i \in 1..Len(buf) :
                    buf[i].name = n /\ \A j \in (i + 1)..Len(buf) : buf[j].name # n].hash
        ELSE mods[n]]

\* A defineModule that applies the buffer without waiting for the pending modules.
ReadyAlways(pen) == TRUE

\* readyToApply = _.every(__modules.pending, _.isUndefined)
readyToApply(pen) == \A n \in HotNames : pen[n] = 0

\* The two early returns of defineModuleHotWrapper.
Unexpected(pen, mod) == pen[mod.name] = 0 \/ pen[mod.name] # mod.hash

\* defineModuleHotWrapper, on the runtime state st = [pending, buffered, modules,
\* applied]; applied collects what is given to the original defineModule.
defineModuleHotWrapper(st, mod) ==
    IF Unexpected(st.pending, mod) THEN st
    ELSE LET buf == Append(st.buffered, mod)
             pen == [st.pending EXCEPT ![mod.name] = 0]
         IN IF readyToApply(pen)
            THEN [pending |-> NoPending, buffered |-> <<>>,
                  modules |-> Swapped(st.modules, buf), applied |-> st.applied \o buf]
            ELSE [st EXCEPT !.pending = pen, !.buffered = buf]

\* build:complete, the accepted and unaccepted names of the records.
Outdated(records, name) == modules[name] # 0 /\ modules[name] # records[name]
accepted(records) ==
    SelectSeq(HotNameOrder,
              LAMBDA n : /\ records[n] # 0
                         /\ \/ modules[n] = 0
                            \/ Outdated(records, n) /\ (Stateless(n) \/ HotAccepted(n)))
unaccepted(records) ==
    SelectSeq(HotNameOrder,
              LAMBDA n : /\ records[n] # 0
                         /\ Outdated(records, n) /\ ~Stateless(n) /\ ~HotAccepted(n))

\* build:complete, the buffered modules that are kept and the names still to fetch.
KeptBuffered(records) ==
    SelectSeq(buffered, LAMBDA m : Member(accepted(records), m.name) /\ records[m.name] = m.hash)
ToFetch(records) ==
    SelectSeq(accepted(records),
              LAMBDA n : \A i \in 1..Len(KeptBuffered(records)) : KeptBuffered(records)[i].name # n)

\* build:complete, the second accepted.forEach: the css and binary records are
\* given to __modules.defineModule one after the other.
RECURSIVE DefineEach(_, _, _)
DefineEach(st, names, records) ==
    IF names = <<>> THEN st
    ELSE DefineEach(IF Stateless(Head(names))
                    THEN defineModuleHotWrapper(st, Mod(Head(names), records[Head(names)]))
                    ELSE st,
                    Tail(names), records)

NoHotCall == [op |-> "none", name |-> "none", hash |-> 0, applied |-> <<>>]

HotInit ==
    /\ modules = NoModules
    /\ pending = NoPending
    /\ buffered = <<>>
    /\ loading = {}
    /\ nBuilds = 0
    /\ nStray = 0
    /\ hotOut = NoHotCall

\* ---------------------------------------------------------------- initial state
NoEvent == [kind |-> "none", path |-> "p1", stat |-> NoStat, threw |-> FALSE]
NoQuery == [id |-> 0, trap |-> NoTrap, path |-> "p1", method |-> "none", result |-> "none",
            val |-> "none"]

CacheInit ==
    /\ files = [p \in Paths |-> 0]
    /\ cells = [p \in Paths |-> NewFile(NoStat)]
    /\ trapsByFile = [p \in Paths |-> <<>>]
    /\ created = [t \in Traps |-> FALSE]
    /\ bindings = [t \in Traps |-> [p \in Paths |-> NoBinding]]
    /\ boundFiles = [t \in Traps |-> [p \in Paths |-> FALSE]]
    /\ triggerOnChange = [t \in Traps |-> [p \in Paths |-> FALSE]]
    /\ inflight = <<>>
    /\ nCalls = 0
    /\ nEvents = 0
    /\ event = NoEvent
    /\ pushed = <<>>
    /\ settled = NoQuery
    /\ fired = [t \in Traps |-> 0]

Init == CacheInit /\ diff = NoDiff /\ diffOut = NoOutput /\ HotInit

\* ---------------------------------------------------------------- events
\* _triggerTraps and the record of the step.
Triggered(batch, path, cause) ==
    /\ trapsByFile' = IF Len(batch) = 0 THEN trapsByFile ELSE Detach(trapsByFile, batch, bindings)
    /\ pushed' = Emit(batch, path, cause)
    /\ fired' = [t \in Traps |-> IF Member(batch, t) THEN fired[t] + 1 ELSE fired[t]]

Ingested(kind, path, stat, threw) ==
    /\ nEvents < MaxEvents
    /\ nEvents + nCalls < MaxOps
    /\ nEvents' = nEvents + 1
    /\ event' = [kind |-> kind, path |-> path, stat |-> stat, threw |-> threw]
    /\ settled' = NoQuery
    /\ UNCHANGED <<created, bindings, boundFiles, triggerOnChange, inflight, nCalls>>
    /\ UNCHANGED <<diff, diffOut, hotVars>>

\* _handleFileAdded
HandleFileAdded(path, stat) ==
    /\ Ingested("added", path, stat, FALSE)
    /\ IF files[path] = 0
       THEN /\ cells' = [cells EXCEPT ![path] = NewFile(stat)]
            /\ files' = [files EXCEPT ![path] = 1]
       ELSE UNCHANGED <<cells, files>>
    /\ Triggered(SelectSeq(trapsByFile[path], LAMBDA t : AddedQualifies(t, path)), path, "added")

\* _handleFileChanged
HandleFileChanged(path, stat) ==
    /\ Ingested("changed", path, stat, FALSE)
    /\ cells' = [cells EXCEPT ![path] = NewFile(stat)]
    /\ files' = [files EXCEPT ![path] = @ + 1]
    /\ Triggered(SelectSeq(trapsByFile[path], LAMBDA t : ChangedQualifies(t, path)), path, "changed")

\* _handleFileRemoved
HandleFileRemoved(path) ==
    /\ Ingested("removed", path, NoStat, RemovedThrows(path))
    /\ cells' = [cells EXCEPT ![path] = [NewFile(NoStat) EXCEPT !["isFile"] = Resolved(FALSE)]]
    /\ files' = [files EXCEPT ![path] = @ + 1]
    /\ IF RemovedThrows(path)
       THEN Triggered(<<>>, path, "removed")
       ELSE Triggered(SelectSeq(trapsByFile[path], LAMBDA t : RemovedQualifies(t, path)), path, "removed")

\* ---------------------------------------------------------------- queries
NewQuery(trap, path, method) ==
    [id |-> nCalls + 1, trap |-> trap, path |-> path, method |-> method,
     awaits |-> PropOf(method), file |-> EvalFileId(path), held |-> "undefined",
     ret |-> "undefined"]

Issued(trap, path, method) ==
    /\ nCalls < MaxCalls
    /\ nEvents + nCalls < MaxOps
    /\ Len(inflight) < MaxInFlight
    /\ nCalls' = nCalls + 1
    /\ inflight' = Append(inflight, NewQuery(trap, path, method))
    /\ files' = [files EXCEPT ![path] = EvalFileId(path)]
    /\ cells' = EvalCells(path, PropOf(method))
    /\ event' = NoEvent
    /\ pushed' = <<>>
    /\ settled' = NoQuery
    /\ UNCHANGED <<created, bindings, fired, nEvents, diff, diffOut, hotVars>>

\* FileSystemCache.isFile ... readTextHash, called directly.
CacheQuery(method, path) ==
    /\ Issued(NoTrap, path, method)
    /\ UNCHANGED <<trapsByFile, boundFiles, triggerOnChange>>

\* createTrap
CreateTrap(t) ==
    /\ ~created[t]
    /\ \A u \in Traps : created[u] \/ TrapSerial(t) <= TrapSerial(u)
    /\ created' = [created EXCEPT ![t] = TRUE]
    /\ event' = NoEvent
    /\ pushed' = <<>>
    /\ settled' = NoQuery
    /\ UNCHANGED <<files, cells, trapsByFile, bindings, boundFiles, triggerOnChange,
                   inflight, nCalls, nEvents, fired, diff, diffOut, hotVars>>

\* What rehydrateTrap may be given: per path no entry or a saved binding.
SavedBindings ==
    {NoBinding,
     [EmptyBinding EXCEPT !.isFile = "false"],
     [EmptyBinding EXCEPT !.isFile = "true"],
     [EmptyBinding EXCEPT !.isFile = "true", !.modifiedTime = 1, !.textHash = "h1"]}
Dependencies == [Paths -> SavedBindings]

\* A rehydrateTrap that does not look at the validator's verdict.
AcceptedAlways(isValid) == TRUE

\* rehydrateTrap's test of the validator's verdict.
Accepted(isValid) == isValid

\* rehydrateTrap: when the validator accepts the dependencies, a new trap takes
\* them as its bindings and is bound to each of their paths; otherwise null.
RehydrateTrap(t, deps, isValid) ==
    /\ ~created[t]
    /\ \A u \in Traps : created[u] \/ TrapSerial(t) <= TrapSerial(u)
    /\ nCalls < MaxCalls
    /\ nEvents + nCalls < MaxOps
    /\ nCalls' = nCalls + 1
    /\ event' = NoEvent
    /\ pushed' = <<>>
    /\ IF Accepted(isValid)
       THEN /\ created' = [created EXCEPT ![t] = TRUE]
            /\ bindings' = [bindings EXCEPT ![t] = deps]
            /\ trapsByFile' = [p \in Paths |->
                    IF deps[p].present THEN bindTrapToFile(trapsByFile, t, p)[p]
                    ELSE trapsByFile[p]]
            /\ settled' = [id |-> nCalls + 1, trap |-> t, path |-> "p1",
                           method |-> "rehydrateTrap", result |-> "trap",
                           val |-> [isValid |-> isValid, deps |-> deps]]
       ELSE /\ settled' = [id |-> nCalls + 1, trap |-> NoTrap, path |-> "p1",
                           method |-> "rehydrateTrap", result |-> "null",
                           val |-> [isValid |-> isValid, deps |-> deps]]
            /\ UNCHANGED <<created, bindings, trapsByFile>>
    /\ UNCHANGED <<files, cells, boundFiles, triggerOnChange, inflight, nEvents, fired>>
    /\ UNCHANGED <<diff, diffOut, hotVars>>

\* FileSystemTrap.isFile, up to the call of the cache: nothing is registered yet.
\* A trap is not queried once it has fired.
TrapIsFile(t, path) ==
    /\ created[t] /\ fired[t] = 0
    /\ Issued(t, path, "isFile")
    /\ UNCHANGED <<trapsByFile, boundFiles, triggerOnChange>>

\* FileSystemTrap.stat, readModifiedTime, readBuffer, readText, readTextHash, up
\* to the call of the cache.
TrapRead(t, method, path) ==
    /\ created[t] /\ fired[t] = 0
    /\ Issued(t, path, method)
    /\ boundFiles' = ensureBoundFiles(boundFiles, t, path)
    /\ trapsByFile' = ensureTrapsByFile(trapsByFile, boundFiles, t, path)
    /\ triggerOnChange' = [triggerOnChange EXCEPT ![t][path] = TRUE]

\* ---------------------------------------------------------------- settling
\* The binding a trap's then-handler works on (_getFileBindings).
Bound(b) == IF b.present THEN b ELSE EmptyBinding

\* isFile's handler: first write wins.
RecordIsFile(b, isFile) ==
    IF Bound(b).isFile = "undefined" THEN [Bound(b) EXCEPT !.isFile = BoolStr(isFile)] ELSE Bound(b)

\* stat's handler: isFile is overwritten, modifiedTime is written once.
RecordStat(b, stat) ==
    [Bound(b) EXCEPT !.isFile = "true",
                     !.modifiedTime = IF @ = 0 THEN stat.mtime ELSE @]

\* readModifiedTime's handler: both fields are overwritten.
RecordModifiedTime(b, mtime) ==
    [Bound(b) EXCEPT !.isFile = "true", !.modifiedTime = mtime]

\* readTextHash's inner handler: first write wins.
RecordTextHash(b, hash) ==
    IF b.textHash = "undefined" THEN [b EXCEPT !.textHash = hash] ELSE b

\* The cell a trap query reads next, "" when the query is complete: readText goes
\* on to readTextHash, readBuffer and readTextHash go on to readModifiedTime.
NextAwaits(q) ==
    CASE q.method = "readText" /\ q.awaits = "text" -> "textHash"
      [] q.method = "readText" /\ q.awaits = "textHash" -> "modifiedTime"
      [] q.method = "readTextHash" /\ q.awaits = "textHash" -> "modifiedTime"
      [] q.method = "readBuffer" /\ q.awaits = "buffer" -> "modifiedTime"
      [] OTHER -> ""

\* The binding after the handler of the cell that just resolved with val.
Recorded(q, b, val) ==
    CASE q.awaits = "isFile" -> RecordIsFile(b, val)
      [] q.awaits = "stat" -> RecordStat(b, val)
      [] q.awaits = "modifiedTime" /\ q.method \in {"readText", "readTextHash"} ->
            RecordTextHash(RecordModifiedTime(b, val), q.held)
      [] q.awaits = "modifiedTime" -> RecordModifiedTime(b, val)
      [] OTHER -> b

Without(s, i) == [j \in 1..(Len(s) - 1) |-> IF j < i THEN s[j] ELSE s[j + 1]]

\* The query leaves the flight; result is what its caller received ("blocked":
\* nothing, the promise never settles).
Delivered(i, result, val) ==
    /\ inflight' = Without(inflight, i)
    /\ settled' = [id |-> inflight[i].id, trap |-> inflight[i].trap, path |-> inflight[i].path,
                   method |-> inflight[i].method, result |-> result, val |-> val]

\* A trap that takes a failed read for an absent file.
RejectedAsAbsent(q, bnd) ==
    IF q.awaits = "isFile" THEN [bnd EXCEPT ![q.trap][q.path] = RecordIsFile(@, FALSE)] ELSE bnd

\* The bindings after a rejected read: the trap's then-handlers do not run.
Rejected(q, bnd) == bnd

\* What a resolved query returns: readBuffer, readText and readTextHash return
\* what their first read produced, the others what their read produced.
Returned(q, val) ==
    IF q.method \in {"readBuffer", "readText", "readTextHash"} THEN q.ret ELSE val

\* The read a query waits for returns: the backend answers if the cell is still
\* pending (out is its answer), then _evaluateFileMethod's handlers run, then the
\* trap's.  The cells of a replaced File are not kept: whatever its read returns,
\* only the staleness check decides what happens to it.
Settle(i, out) ==
    LET q == inflight[i]
        current == q.file = files[q.path]
        cell == cells[q.path][q.awaits]
        outcome == IF current /\ cell.st # "pending" THEN cell
                   ELSE IF out.err THEN Failed(q.awaits) ELSE Resolved(out.v)
        cells1 == IF current THEN [cells EXCEPT ![q.path][q.awaits] = outcome] ELSE cells
        next == IF q.trap = NoTrap THEN "" ELSE NextAwaits(q)
    IN
    /\ (current /\ cell.st # "pending") => out = [err |-> TRUE, v |-> DefaultVal(q.awaits)]
    /\ event' = NoEvent
    /\ pushed' = <<>>
    /\ UNCHANGED <<created, fired, nEvents, nCalls, files, diff, diffOut, hotVars>>
    /\ IF blockStaleFilesFromResolving(q.file, q.path)
       THEN /\ Delivered(i, "blocked", "none")
            /\ cells' = cells1
            /\ UNCHANGED <<bindings, boundFiles, trapsByFile, triggerOnChange>>
       ELSE IF outcome.st = "err"
       THEN /\ Delivered(i, "error", "none")
            /\ cells' = cells1
            /\ bindings' = IF q.trap = NoTrap THEN bindings ELSE Rejected(q, bindings)
            /\ UNCHANGED <<boundFiles, trapsByFile, triggerOnChange>>
       ELSE IF q.trap = NoTrap
       THEN /\ Delivered(i, "value", outcome.v)
            /\ cells' = cells1
            /\ UNCHANGED <<bindings, boundFiles, trapsByFile, triggerOnChange>>
       ELSE IF next # ""
       THEN \* the handler calls the trap's next method on the same path
            /\ inflight' = [inflight EXCEPT ![i].awaits = next,
                              ![i].held = IF q.awaits = "textHash" THEN outcome.v ELSE @,
                              ![i].ret = IF q.awaits = PropOf(q.method) THEN outcome.v ELSE @]
            /\ settled' = NoQuery
            /\ cells' = [cells1 EXCEPT ![q.path][next] = CellGet(@)]
            /\ boundFiles' = ensureBoundFiles(boundFiles, q.trap, q.path)
            /\ trapsByFile' = ensureTrapsByFile(trapsByFile, boundFiles, q.trap, q.path)
            /\ triggerOnChange' = [triggerOnChange EXCEPT ![q.trap][q.path] = TRUE]
            /\ UNCHANGED bindings
       ELSE /\ Delivered(i, "value", Returned(q, outcome.v))
            /\ cells' = cells1
            /\ bindings' = [bindings EXCEPT ![q.trap][q.path] = Recorded(q, @, outcome.v)]
            /\ boundFiles' = IF bindings[q.trap][q.path].present THEN boundFiles
                             ELSE ensureBoundFiles(boundFiles, q.trap, q.path)
            /\ trapsByFile' = IF bindings[q.trap][q.path].present THEN trapsByFile
                              ELSE ensureTrapsByFile(trapsByFile, boundFiles, q.trap, q.path)
            /\ UNCHANGED triggerOnChange

\* What the backend may answer to the read query i waits for.
Answers(i) ==
    {[err |-> TRUE, v |-> DefaultVal(inflight[i].awaits)]}
        \cup {[err |-> FALSE, v |-> val] : val \in Vals(inflight[i].awaits)}

\* ---------------------------------------------------------------- specification
Next ==
    \/ \E t \in Traps : CreateTrap(t)
    \/ \E t \in Traps, deps \in Dependencies, isValid \in BOOLEAN : RehydrateTrap(t, deps, isValid)
    \/ \E m \in Methods, p \in Paths : CacheQuery(m, p)
    \/ \E t \in Traps, p \in Paths : TrapIsFile(t, p)
    \/ \E t \in Traps, m \in Methods \ {"isFile"}, p \in Paths : TrapRead(t, m, p)
    \/ \E i \in 1..Len(inflight) : \E out \in Answers(i) : Settle(i, out)
    \/ \E p \in Paths, s \in Stats \cup {NoStat} : HandleFileAdded(p, s)
    \/ \E p \in Paths, s \in Stats \cup {NoStat} : HandleFileChanged(p, s)
    \/ \E p \in Paths : HandleFileRemoved(p)

Spec == Init /\ [][Next]_vars

\* ---------------------------------------------------------------- the functions of diff.js
cacheVars == <<files, cells, trapsByFile, created, bindings, boundFiles, triggerOnChange,
               inflight, nCalls, nEvents, event, pushed, settled, fired>>

InitDiff == CacheInit /\ diff \in Diffs /\ diffOut = NoOutput /\ HotInit

Returned2(op, nodes, args, diffs) ==
    /\ diffOut' = [op |-> op, nodes |-> nodes, args |-> args, diffs |-> diffs]
    /\ UNCHANGED <<diff, cacheVars, hotVars>>

Called(op, nodes) == Returned2(op, nodes, <<>>, <<>>)

GetNewNodesFromDiff == Called("getNewNodesFromDiff", getNewNodesFromDiff(diff))

GetChangedNodes == Called("getChangedNodes", getChangedNodes(diff))

GetPrunedNodesFromDiff == Called("getPrunedNodesFromDiff", getPrunedNodesFromDiff(diff))

\* mergeDiffs(diff, diff2), for a diff2 that starts where diff ends or elsewhere.
\* A behaviour merges once.
MergeDiffs(diff2) ==
    /\ diffOut.diffs = <<>>
    /\ Returned2("mergeDiffs", <<>>, <<diff2>>, <<mergeDiffs(diff, diff2)>>)

\* The two ways of merging diff, diff2 and diff3.
MergeThree(diff2, diff3) ==
    /\ diffOut.diffs = <<>>
    /\ Returned2("mergeThree", <<>>, <<diff2, diff3>>,
                 <<mergeDiffs(mergeDiffs(diff, diff2), diff3),
                   mergeDiffs(diff, mergeDiffs(diff2, diff3))>>)

NextDiff ==
    \/ GetNewNodesFromDiff
    \/ GetPrunedNodesFromDiff
    \/ GetChangedNodes
    \/ \E to \in LaterSnapshots, from \in LaterSnapshots \cup {diff.to} :
          MergeDiffs(Diff(from, to))
    \/ \E diff2, diff3 \in LaterDiffs : MergeThree(diff2, diff3)

SpecDiff == InitDiff /\ [][NextDiff]_vars

\* ---------------------------------------------------------------- the hot runtime
\* The runtime state a call works on, and the state it leaves.
HotState(pen, buf, mods) == [pending |-> pen, buffered |-> buf, modules |-> mods, applied |-> <<>>]

HotCalled(op, name, hash, st) ==
    /\ pending' = st.pending
    /\ buffered' = st.buffered
    /\ modules' = st.modules
    /\ hotOut' = [op |-> op, name |-> name, hash |-> hash, applied |-> st.applied]
    /\ UNCHANGED <<cacheVars, diff, diffOut>>

\* __modules.defineModule(mod), called by a script that no build:complete asked for.
DefineModule(mod) ==
    /\ nStray < MaxStray
    /\ nStray' = nStray + 1
    /\ HotCalled("defineModule", mod.name, mod.hash,
                 defineModuleHotWrapper(HotState(pending, buffered, modules), mod))
    /\ UNCHANGED <<loading, nBuilds>>

\* A script added by replaceScript has loaded and calls __modules.defineModule.
ScriptLoaded(mod) ==
    /\ mod \in loading
    /\ loading' = loading \ {mod}
    /\ HotCalled("defineModule", mod.name, mod.hash,
                 defineModuleHotWrapper(HotState(pending, buffered, modules), mod))
    /\ UNCHANGED <<nBuilds, nStray>>

\* io.on('build:complete', ({records, removed}) => ...): records maps a name to its
\* hash (0: not in records), removed is a set of names.
BuildComplete(records, removed) ==
    /\ nBuilds < MaxBuilds
    /\ nBuilds' = nBuilds + 1
    /\ UNCHANGED nStray
    /\ IF unaccepted(records) # <<>>
       THEN /\ HotCalled("build:complete", "none", 0, HotState(pending, buffered, modules))
            /\ UNCHANGED loading
       ELSE LET kept == KeptBuffered(records)
                fetch == ToFetch(records)
                mods == [n \in HotNames |-> IF n \in removed THEN 0 ELSE modules[n]]
                pen == [n \in HotNames |-> IF Member(fetch, n) THEN records[n] ELSE 0]
            IN IF fetch = <<>>
               THEN /\ HotCalled("build:complete", "none", 0, HotState(NoPending, kept, mods))
                    /\ UNCHANGED loading
               ELSE /\ HotCalled("build:complete", "none", 0,
                                 DefineEach(HotState(pen, kept, mods), fetch, records))
                    /\ loading' = loading \cup
                           {Mod(n, records[n]) : n \in {m \in Range(fetch) : ~Stateless(m)}}

\* What a build:complete signal can carry: per name a record with a hash, no
\* record, or no record and an entry in removed.
Builds ==
    {b \in [records : [HotNames -> ModuleHashes \cup {0}], removed : SUBSET HotNames] :
        \A n \in b.removed : b.records[n] = 0}

InitHot == CacheInit /\ diff = NoDiff /\ diffOut = NoOutput /\ HotInit

NextHot ==
    \/ \E b \in Builds : BuildComplete(b.records, b.removed)
    \/ \E mod \in Mods : ScriptLoaded(mod)
    \/ \E mod \in Mods : DefineModule(mod)

SpecHot == InitHot /\ [][NextHot]_vars

\* Every script that has been added to the document loads in the end.
SpecHotLive == SpecHot /\ \A mod \in Mods : WF_vars(ScriptLoaded(mod))

\* ---------------------------------------------------------------- properties
PushedTraps == {pushed[i].trap : i \in 1..Len(pushed)}
Registered(t, p) == Member(trapsByFile[p], t)
EventOn(kind, p) == event.kind = kind /\ event.path = p

\* C1: at most one trapTriggered notification is ever emitted for a trap.
C1_FiresAtMostOnce == \A t \in Traps : fired[t] <= 1

\* C2: a query whose File has been replaced while it was in flight delivers
\* neither a value nor an error to its caller when its read returns.
C2_StaleNeverDelivers ==
    [][\A i \in 1..Len(inflight) :
          (inflight[i].file # files[inflight[i].path] /\ settled'.id = inflight[i].id)
              => settled'.result \notin {"value", "error"}]_vars

C2_Witness ==
    /\ settled.result = "blocked"
    /\ settled.method \in Methods

\* C3: onFileChanged(P) pushes {trap, P, 'changed'} for every trap registered for
\* P that has triggerOnChange[P] set or a binding for P with a modifiedTime or a
\* textHash.
C3_ChangedNotifiesSensitive ==
    [][\A p \in Paths : EventOn("changed", p)' =>
          \A t \in Range(trapsByFile[p]) :
              (\/ triggerOnChange[t][p]
               \/ /\ bindings[t][p].present
                  /\ (bindings[t][p].modifiedTime # 0 \/ bindings[t][p].textHash # "undefined"))
              => \E i \in 1..Len(pushed') :
                    pushed'[i] = [trap |-> t, path |-> p, cause |-> "changed"]]_vars

\* Both kinds of sensitive trap were notified by one onFileChanged: one through
\* triggerOnChange, one through its saved modifiedTime alone.
C3_Witness ==
    /\ event.kind = "changed"
    /\ \E i, j \in 1..Len(pushed) :
          /\ triggerOnChange[pushed[i].trap][event.path]
          /\ ~triggerOnChange[pushed[j].trap][event.path]
          /\ bindings[pushed[j].trap][event.path].modifiedTime # 0

\* C4: a registered trap with only an isFile binding for P (no triggerOnChange, no
\* modifiedTime, no textHash) is not notified by onFileChanged(P) and stays
\* registered for P.
OnlyIsFile(t, p) ==
    /\ bindings[t][p].present
    /\ bindings[t][p].isFile # "undefined"
    /\ bindings[t][p].modifiedTime = 0
    /\ bindings[t][p].textHash = "undefined"
    /\ ~triggerOnChange[t][p]

C4_IsFileOnlyIgnoresChange ==
    [][\A p \in Paths, t \in Traps :
          (EventOn("changed", p)' /\ Registered(t, p) /\ OnlyIsFile(t, p))
              => /\ \A i \in 1..Len(pushed') : pushed'[i].trap # t
                 /\ Registered(t, p)']_vars

\* An onFileChanged notified a trap while an isFile-only trap of the same path
\* stayed registered.
C4_Witness ==
    /\ event.kind = "changed"
    /\ Len(pushed) > 0
    /\ \E t \in Traps :
          /\ OnlyIsFile(t, event.path)
          /\ Registered(t, event.path)
          /\ fired[t] = 0

\* C5: onFileAdded(P) pushes {trap, P, 'added'}, once each, for exactly the traps
\* registered for P whose binding for P has isFile == false.
C5_AddedNotifiesAbsenceObservers ==
    [][\A p \in Paths : EventOn("added", p)' =>
          /\ {pushed'[i].trap : i \in 1..Len(pushed')}
                = {t \in Range(trapsByFile[p]) :
                      bindings[t][p].present /\ bindings[t][p].isFile = "false"}
          /\ \A i \in 1..Len(pushed') : pushed'[i].path = p /\ pushed'[i].cause = "added"
          /\ \A i, j \in 1..Len(pushed') : pushed'[i].trap = pushed'[j].trap => i = j]_vars

\* An onFileAdded notified one trap and passed over another registered for the path
\* with isFile == true.
C5_Witness ==
    /\ event.kind = "added"
    /\ Len(pushed) = 1
    /\ \E t \in Traps :
          /\ Registered(t, event.path)
          /\ bindings[t][event.path].isFile = "true"
          /\ t \notin PushedTraps

\* C6: onFileRemoved(P) pushes {trap, P, 'removed'} for exactly the traps registered
\* for P whose binding for P has isFile == true.
C6_RemovedNotifiesPresenceObservers ==
    [][\A p \in Paths : EventOn("removed", p)' =>
          /\ {pushed'[i].trap : i \in 1..Len(pushed')}
                = {t \in Range(trapsByFile[p]) :
                      bindings[t][p].present /\ bindings[t][p].isFile = "true"}
          /\ \A i \in 1..Len(pushed') : pushed'[i].path = p /\ pushed'[i].cause = "removed"]_vars

\* C7: when an event pushes notifications, none of the notified traps is still a
\* member of any path's set in trapsByFile.
C7_DetachedBeforeNotified ==
    \A i \in 1..Len(pushed) : \A p \in Paths : ~Registered(pushed[i].trap, p)

\* C8: the notifications of one event are pushed in the reverse of the order in
\* which their traps were registered for the event's path.
PlaceIn(s, x) == CHOOSE i \in 1..Len(s) : s[i] = x

C8_ReverseRegistrationOrder ==
    [][\A i, j \in 1..Len(pushed') :
          i < j => PlaceIn(trapsByFile[event'.path], pushed'[i].trap)
                      > PlaceIn(trapsByFile[event'.path], pushed'[j].trap)]_vars

C8_Witness ==
    /\ Len(pushed) = 2
    /\ pushed[1].trap = "t2"
    /\ pushed[2].trap = "t1"

\* C9: when a query issued through a trap is suppressed by the staleness check, a
\* notification for that trap has been pushed.
C9_SuppressedTrapIsNotified ==
    (settled.result = "blocked" /\ settled.trap # NoTrap) => fired[settled.trap] >= 1

\* C10: after onFileAdded(P, stat) with a stat, isFile(P) and readModifiedTime(P)
\* need no backend call: both cells of P's File are already resolved.
C10_AddedStatPreSeeds ==
    (event.kind = "added" /\ event.stat.present) =>
        /\ cells[event.path]["isFile"].st = "ok"
        /\ cells[event.path]["modifiedTime"].st = "ok"

\* C11: every ingestion event installs a new File for its path: after
\* onFileRemoved(P) the isFile cell is resolved to false, and after onFileRemoved(P)
\* followed by onFileAdded(P, stat) it is resolved to stat.isFile().
C11_EventInstallsNewRecord ==
    [][\A p \in Paths :
          /\ EventOn("removed", p)' => cells'[p]["isFile"] = Resolved(FALSE)
          /\ (EventOn("removed", p) /\ EventOn("added", p)' /\ event'.stat.present)
                => /\ files'[p] # files[p]
                   /\ cells'[p]["isFile"] = Resolved(event'.stat.isFile)]_vars

\* C12: on a path with no File yet, the first isFile starts exactly one backend
\* read; an isFile on a File whose isFile cell has been read before starts none,
\* and what it delivers is the outcome the cell holds.
StartedReads(p) ==
    {prop \in Props : cells[p][prop].st = "unset" /\ cells'[p][prop].st = "pending"}
IssuesIsFile(p) ==
    /\ Len(inflight') = Len(inflight) + 1
    /\ inflight'[Len(inflight')].method = "isFile"
    /\ inflight'[Len(inflight')].path = p
SettlesIsFile(i) ==
    /\ inflight[i].method = "isFile"
    /\ inflight[i].file = files[inflight[i].path]
    /\ settled'.id = inflight[i].id

C12_IsFileReadOnce ==
    [][/\ \A p \in Paths : IssuesIsFile(p) =>
             /\ files[p] = 0 => StartedReads(p) = {"isFile"}
             /\ (files[p] # 0 /\ cells[p]["isFile"].st # "unset") =>
                    (StartedReads(p) = {} /\ cells' = cells)
             /\ \A r \in Paths \ {p} : cells'[r] = cells[r]
       /\ \A i \in 1..Len(inflight) : SettlesIsFile(i) =>
             LET before == cells[inflight[i].path]["isFile"]
                 after == cells'[inflight[i].path]["isFile"]
             IN /\ before.st # "pending" => after = before
                /\ after.st \in {"ok", "err"}
                /\ after.st = "ok" => (settled'.result = "value" /\ settled'.val = after.v)
                /\ after.st = "err" => settled'.result = "error"]_vars

\* A second isFile settled on a cell the first had already resolved.
C12_Witness ==
    /\ settled.method = "isFile"
    /\ settled.id = 2
    /\ settled.result = "value"
    /\ nEvents = 0
    /\ inflight = <<>>
    /\ cells[settled.path]["isFile"].st = "ok"
    /\ \A prop \in Props \ {"isFile"} : cells[settled.path][prop].st = "unset"

\* C13: once a trap has recorded a field of a path's binding, no later step
\* changes the recorded value (first write wins).
C13_FirstWriteWins ==
    [][\A t \in Traps, p \in Paths : bindings[t][p].present =>
          /\ bindings[t][p].isFile # "undefined" => bindings'[t][p].isFile = bindings[t][p].isFile
          /\ bindings[t][p].modifiedTime # 0
                => bindings'[t][p].modifiedTime = bindings[t][p].modifiedTime
          /\ bindings[t][p].textHash # "undefined"
                => bindings'[t][p].textHash = bindings[t][p].textHash]_vars

\* C14: a trap that has not fired is a member of trapsByFile[path] for every query
\* it has in flight on path.
C14_RegisteredWhileInFlight ==
    \A i \in 1..Len(inflight) :
        (inflight[i].trap # NoTrap /\ fired[inflight[i].trap] = 0)
            => Registered(inflight[i].trap, inflight[i].path)

\* C15: when the validator accepts b, rehydrateTrap(b) yields a trap whose
\* describeDependencies() is b, which is registered for exactly the paths of b and
\* which the event rules select as b says.
Rehydrates == settled.method = "rehydrateTrap"

C15_RehydrateRoundTrip ==
    (Rehydrates /\ settled.val.isValid) =>
        LET t == settled.trap
            b == settled.val.deps
        IN /\ settled.result = "trap"
           /\ t \in Traps /\ created[t] /\ fired[t] = 0
           /\ DescribeDependencies(t) = b
           /\ \A p \in Paths :
                 /\ Registered(t, p) <=> b[p].present
                 /\ AddedQualifies(t, p) <=> (b[p].present /\ b[p].isFile = "false")
                 /\ RemovedQualifies(t, p) <=> (b[p].present /\ b[p].isFile = "true")
                 /\ ChangedQualifies(t, p) <=>
                       (b[p].present /\ (b[p].modifiedTime # 0 \/ b[p].textHash # "undefined"))

\* A second trap was rehydrated for one path only, after another trap registered.
C15_Witness ==
    /\ Rehydrates
    /\ settled.result = "trap"
    /\ settled.trap = "t2"
    /\ \E p, r \in Paths : settled.val.deps[p].present /\ ~settled.val.deps[r].present
    /\ \E p \in Paths : Len(trapsByFile[p]) = 2

\* C16: when the validator reports a mismatch, rehydrateTrap resolves to null,
\* creates no trap and leaves the reverse index and every trap's bindings unchanged.
C16_MismatchYieldsNoTrap ==
    [][(settled'.method = "rehydrateTrap" /\ settled'.id = nCalls + 1 /\ ~settled'.val.isValid)
          => /\ settled'.result = "null"
             /\ settled'.trap = NoTrap
             /\ created' = created
             /\ trapsByFile' = trapsByFile
             /\ bindings' = bindings]_vars

C16_Witness ==
    /\ Rehydrates
    /\ settled.result = "null"
    /\ \E p \in Paths : settled.val.deps[p].present
    /\ \E p \in Paths : trapsByFile[p] # <<>>

\* C17: when the File a query runs against is still the path's current File as
\* its read returns, the caller receives the read's outcome: its value on success,
\* its error on failure.
C17_CurrentQueryGetsOutcome ==
    [][\A i \in 1..Len(inflight) :
          (inflight[i].file = files[inflight[i].path] /\ settled'.id = inflight[i].id) =>
              LET after == cells'[inflight[i].path][inflight[i].awaits]
              IN /\ after.st \in {"ok", "err"}
                 /\ after.st = "err" => settled'.result = "error"
                 /\ after.st = "ok" =>
                       /\ settled'.result = "value"
                       /\ inflight[i].trap = NoTrap => settled'.val = after.v]_vars

\* A backend error reached the caller of a direct cache query.
C17_Witness ==
    /\ settled.result = "error"
    /\ settled.trap = NoTrap
    /\ settled.method \in Methods
    /\ cells[settled.path][PropOf(settled.method)].st = "err"

\* C18: a query that ends in a backend error leaves the File of every other path
\* and the bindings of every trap unchanged.
C18_ErrorIsLocal ==
    [][(settled'.result = "error" /\ settled'.id # settled.id) =>
          /\ bindings' = bindings
          /\ \A p \in Paths \ {settled'.path} : cells'[p] = cells[p] /\ files'[p] = files[p]]_vars

\* A trap's query failed while the other path had a File and a trap had bindings.
C18_Witness ==
    /\ settled.result = "error"
    /\ settled.trap # NoTrap
    /\ \E p \in Paths \ {settled.path} : files[p] # 0
    /\ \E t \in Traps, p \in Paths : bindings[t][p].present

\* C19: getChangedNodes returns exactly the keys present in both diff.from and
\* diff.to whose two values are not structurally equal, whatever the value stored in
\* diff.from (0, false, "" and null included).
InBoth(d) == {key \in Keys : has(d.from, key) /\ has(d.to, key)}

C19_ChangedNodesExact ==
    diffOut.op = "getChangedNodes" =>
        Range(diffOut.nodes) = {key \in InBoth(diff) : ~is(get(diff.to, key), get(diff.from, key))}

\* C20: getNewNodesFromDiff returns exactly the keys present in diff.to and absent
\* from diff.from, each once, whatever values the keys map to.
C20_NewNodesExact ==
    diffOut.op = "getNewNodesFromDiff" =>
        /\ Range(diffOut.nodes) = {key \in Keys : has(diff.to, key) /\ ~has(diff.from, key)}
        /\ Len(diffOut.nodes) = Cardinality(Range(diffOut.nodes))

\* One key is new while the other is in both maps with a falsy value in diff.from.
C20_Witness ==
    /\ diffOut.op = "getNewNodesFromDiff"
    /\ diffOut.nodes = <<"b">>
    /\ has(diff.from, "a") /\ has(diff.to, "a")
    /\ ~Truthy(get(diff.from, "a"))

\* C21: getPrunedNodesFromDiff returns exactly the keys present in diff.from and
\* absent from diff.to, each once, whatever values the keys map to.
C21_PrunedNodesExact ==
    diffOut.op = "getPrunedNodesFromDiff" =>
        /\ Range(diffOut.nodes) = {key \in Keys : has(diff.from, key) /\ ~has(diff.to, key)}
        /\ Len(diffOut.nodes) = Cardinality(Range(diffOut.nodes))

\* One key is pruned while the other is in both maps with a falsy value in diff.to.
C21_Witness ==
    /\ diffOut.op = "getPrunedNodesFromDiff"
    /\ diffOut.nodes = <<"a">>
    /\ has(diff.from, "b") /\ has(diff.to, "b")
    /\ ~Truthy(get(diff.to, "b"))

\* C22: mergeDiffs(d1, d2) is Diff(from = d1.from, to = d2.to) whatever d1.to and
\* d2.from are, and merging three diffs gives the same diff in either grouping.
C22_MergeIsFromFirstToLast ==
    /\ diffOut.op = "mergeDiffs" =>
          diffOut.diffs[1] = [from |-> diff.from, to |-> diffOut.args[1].to]
    /\ diffOut.op = "mergeThree" =>
          /\ diffOut.diffs[1] = diffOut.diffs[2]
          /\ diffOut.diffs[1] = [from |-> diff.from, to |-> diffOut.args[2].to]

\* Three diffs that do not follow one another and differ in every endpoint were merged.
C22_Witness ==
    /\ diffOut.op = "mergeThree"
    /\ diff.to # diffOut.args[1].from
    /\ diffOut.args[1].to # diffOut.args[2].from
    /\ diff.from # diffOut.args[1].from
    /\ diffOut.args[1].to # diffOut.args[2].to
    /\ diffOut.diffs[1].to # EmptyMap

\* C23: for adjacent diffs d1 and d2, a key absent from d1.from, present in d1.to
\* and absent from d2.to is reported as new, pruned or changed by none of the three
\* functions on mergeDiffs(d1, d2), although it is new in d1 and pruned in d2.
Adjacent(d1, d2) == d1.to = d2.from
AddedThenRemoved(d1, d2) ==
    {key \in Keys : ~has(d1.from, key) /\ has(d1.to, key) /\ ~has(d2.to, key)}

C23_MergeLosesAddedThenRemoved ==
    (diffOut.op = "mergeDiffs" /\ Adjacent(diff, diffOut.args[1])) =>
        \A key \in AddedThenRemoved(diff, diffOut.args[1]) :
            /\ key \notin Range(getNewNodesFromDiff(diffOut.diffs[1]))
            /\ key \notin Range(getPrunedNodesFromDiff(diffOut.diffs[1]))
            /\ key \notin Range(getChangedNodes(diffOut.diffs[1]))
            /\ key \in Range(getNewNodesFromDiff(diff))
            /\ key \in Range(getPrunedNodesFromDiff(diffOut.args[1]))

\* Key b was added by the first diff and removed by the second, key a lives on.
C23_Witness ==
    /\ diffOut.op = "mergeDiffs"
    /\ Adjacent(diff, diffOut.args[1])
    /\ AddedThenRemoved(diff, diffOut.args[1]) = {"b"}
    /\ has(diffOut.diffs[1].from, "a") /\ has(diffOut.diffs[1].to, "a")

\* C27: what getNewNodesFromDiff, getPrunedNodesFromDiff and getChangedNodes return
\* for one diff is pairwise disjoint, a key absent from diff.from is never reported
\* as changed, and all three are empty when diff.from and diff.to are structurally
\* equal.
StructurallyEqual(m1, m2) ==
    \A key \in Keys :
        /\ has(m1, key) <=> has(m2, key)
        /\ has(m1, key) => is(get(m1, key), get(m2, key))
NodesOf(op) ==
    IF diffOut.op = op THEN Range(diffOut.nodes)
    ELSE IF op = "getNewNodesFromDiff" THEN Range(getNewNodesFromDiff(diff))
    ELSE IF op = "getPrunedNodesFromDiff" THEN Range(getPrunedNodesFromDiff(diff))
    ELSE Range(getChangedNodes(diff))
DiffQueries == {"getNewNodesFromDiff", "getPrunedNodesFromDiff", "getChangedNodes"}

C27_NodeSetsDisjoint ==
    diffOut.op \in DiffQueries =>
        /\ \A op1, op2 \in DiffQueries : op1 # op2 => NodesOf(op1) \cap NodesOf(op2) = {}
        /\ \A key \in NodesOf("getChangedNodes") : has(diff.from, key)
        /\ StructurallyEqual(diff.from, diff.to) => \A op \in DiffQueries : NodesOf(op) = {}

\* getChangedNodes reported one key of a diff that also has a new key.
C27_Witness ==
    /\ diffOut.op = "getChangedNodes"
    /\ diffOut.nodes = <<"a">>
    /\ ~has(diff.from, "b") /\ has(diff.to, "b")


\* C24: a trap that has been pushed to trapTriggered is a member of no path's set
\* in trapsByFile, in the state of the push and in every later state.
C24_FiredTrapStaysDetached ==
    \A t \in Traps : fired[t] >= 1 => \A p \in Paths : ~Registered(t, p)

\* C25: a call of stat, readModifiedTime, readBuffer, readText or readTextHash on P
\* through a trap sets triggerOnChange[P] and registers the trap in the step of the
\* call; the flag is never cleared; and onFileChanged(P) notifies every trap that
\* has the flag and has not fired, whether or not its query has settled or failed.
ReadsThrough(t, p) ==
    /\ Len(inflight') = Len(inflight) + 1
    /\ inflight'[Len(inflight')].trap = t
    /\ inflight'[Len(inflight')].path = p
    /\ inflight'[Len(inflight')].method # "isFile"

C25_ReadIsChangeSensitiveAtOnce ==
    [][\A t \in Traps, p \in Paths :
          /\ ReadsThrough(t, p) => (triggerOnChange'[t][p] /\ Registered(t, p)')
          /\ triggerOnChange[t][p] => triggerOnChange'[t][p]
          /\ (triggerOnChange[t][p] /\ fired[t] = 0 /\ EventOn("changed", p)')
                => \E i \in 1..Len(pushed') :
                      pushed'[i] = [trap |-> t, path |-> p, cause |-> "changed"]]_vars

\* onFileChanged notified a trap whose only query on the path had failed, and
\* another trap whose query on the path was still in flight.
C25_Witness ==
    /\ event.kind = "changed"
    /\ Len(pushed) = 2
    /\ \A i \in 1..2 : ~bindings[pushed[i].trap][event.path].present
    /\ Len(inflight) = 1
    /\ inflight[1].path = event.path
    /\ inflight[1].trap \in PushedTraps

\* C26: no call of onFileAdded, onFileChanged or onFileRemoved raises an error.
C26_EventsNeverThrow == ~event.threw

\* C28: a step writes a module to the registry only as part of applying the whole
\* buffer: the step's defineModule found no other pending entry after buffering
\* its module, every buffered module and the incoming one are written, and the
\* step leaves the buffer and the pending map empty. A defineModule of a module
\* that is not pending, or not with the pending hash, changes nothing.
Written == {n \in HotNames : modules'[n] # modules[n] /\ modules'[n] # 0}
AppliedNow == {hotOut'.applied[i] : i \in 1..Len(hotOut'.applied)}
Incoming == Mod(hotOut'.name, hotOut'.hash)

C28_BufferAppliedAsAWhole ==
    [][/\ Written # {} =>
             /\ Written \subseteq {m.name : m \in AppliedNow}
             /\ buffered' = <<>>
             /\ pending' = NoPending
       /\ AppliedNow # {} =>
             /\ \A m \in AppliedNow : modules'[m.name] = m.hash
             /\ \A i \in 1..Len(buffered) : buffered[i] \in AppliedNow \/ hotOut'.op = "build:complete"
             /\ buffered' = <<>>
             /\ pending' = NoPending
       /\ hotOut'.op = "defineModule" =>
             /\ AppliedNow # {} <=>
                   (pending[Incoming.name] = Incoming.hash
                    /\ \A n \in HotNames \ {Incoming.name} : pending[n] = 0)
             /\ AppliedNow # {} => hotOut'.applied = Append(buffered, Incoming)
             /\ (pending[Incoming.name] = 0 \/ pending[Incoming.name] # Incoming.hash) =>
                   /\ buffered' = buffered
                   /\ modules' = modules
                   /\ pending' = pending
             /\ (AppliedNow = {} /\ pending[Incoming.name] = Incoming.hash) =>
                   /\ buffered' = Append(buffered, Incoming)
                   /\ modules' = modules
       /\ \A i \in 1..Len(buffered') :
             \/ \E j \in 1..Len(buffered) : buffered[j] = buffered'[i]
             \/ hotOut'.op = "defineModule" /\ buffered'[i] = Incoming
                   /\ pending[Incoming.name] = Incoming.hash
             \/ hotOut'.op = "build:complete" /\ Stateless(buffered'[i].name)]_vars

\* A defineModule applied a buffer of two modules of which one had waited there.
C28_Witness ==
    /\ hotOut.op = "defineModule"
    /\ Len(hotOut.applied) = 2
    /\ buffered = <<>>
    /\ \A i \in 1..2 : modules[hotOut.applied[i].name] = hotOut.applied[i].hash

\* C29: whenever the buffer holds a module, the buffer is applied and cleared later
\* on, provided every script that was added for a pending module loads.
C29_BufferInevitablyCleared == (buffered # <<>>) ~> (buffered = <<>>)

====
